---- MODULE Spec2Model ----
(***************************************************************************)
(* Model of the NeuroComms pilot dashboard (src/index.tsx).                *)
(*                                                                         *)
(* Strings are sequences of tokens.  A token is either the double-quote    *)
(* character, one of the identifier words the mock dispatch looks for, or  *)
(* a stretch of other text.  The four keys callGeminiAPI searches for are  *)
(* a word between two double quotes, so String.prototype.includes is       *)
(* modelled as contiguous-subsequence search over tokens; the quotes that  *)
(* the prompt templates put around interpolated inputs are kept.           *)
(*                                                                         *)
(* A submit handler is two steps: the part up to its await (validation,    *)
(* the three setters, the call of callGeminiAPI) and its continuation      *)
(* (setResult, finally setIsLoading(false)).  Edits and clicks of any      *)
(* panel may come between the two.                                         *)
(***************************************************************************)
EXTENDS Integers, Sequences, FiniteSets, TLC

VARIABLES
    inputs,         \* per panel: the useState text / select fields
    isLoading,      \* per panel: useState(false)
    result,         \* per panel: useState<any | null>(null)
    error,          \* per panel: useState<string | null>(null)
    calls,          \* per panel: promises returned by callGeminiAPI whose await has not resumed
    clicks,         \* per panel: number of times the submit handler has run
    apiCalls,       \* per panel: number of callGeminiAPI invocations made
    nEvents,        \* number of user events (edits and clicks) so far
    origin,         \* dispatch harness: where the prompt comes from
    prompt,         \* dispatch harness: argument of callGeminiAPI
    isJsonOutput,   \* dispatch harness: argument of callGeminiAPI
    ret             \* dispatch harness: value the returned promise resolves to

vars == <<inputs, isLoading, result, error, calls, clicks, apiCalls, nEvents,
          origin, prompt, isJsonOutput, ret>>

panelVars == <<inputs, isLoading, result, error, calls, clicks, apiCalls, nEvents>>
fnVars == <<origin, prompt, isJsonOutput, ret>>

(***************************************************************************)
(* Bounds                                                                  *)
(***************************************************************************)
MaxEvents == 3          \* user events (edits + submit clicks) per run
MaxPromptLen == 5       \* tokens in a prompt handed directly to callGeminiAPI

(***************************************************************************)
(* Tokens and strings                                                      *)
(***************************************************************************)
Quote == "\""
Txt == "text"

KeyOrder == <<"newsworthiness_score", "compliance_risks", "stakeholder_segments", "analysis">>
KeyWords == {KeyOrder[i] : i \in 1..Len(KeyOrder)}

TypedAlphabet == KeyWords \cup {Quote, Txt}

\* values a user types or pastes into a free-text field
TypedStrings ==
    { <<>>, <<Txt>>,
      <<"newsworthiness_score">>, <<"compliance_risks">>,
      <<"stakeholder_segments">>, <<"analysis">>,
      <<Quote, "newsworthiness_score", Quote>> }

RECURSIVE StringsOfLen(_)
StringsOfLen(n) ==
    IF n = 0 THEN { <<>> }
    ELSE { Append(s, t) : s \in StringsOfLen(n - 1), t \in TypedAlphabet }

StringsUpTo(n) == UNION { StringsOfLen(k) : k \in 0..n }

\* String.prototype.includes
Includes(s, sub) ==
    \E i \in 0..(Len(s) - Len(sub)) :
        \A j \in 1..Len(sub) : s[i + j] = sub[j]

\* the quoted key as it is written in the source, e.g. '"analysis"'
Quoted(w) == <<Quote, w, Quote>>

(***************************************************************************)
(* JavaScript values that flow through result / the promise                *)
(***************************************************************************)
\* A value is its type and its own properties; long display strings of the
\* literals are abbreviated, the property names and numbers are the source's.
Null == [type |-> "null", props |-> <<>>]
Undefined == [type |-> "undefined", props |-> <<>>]

NarrativeLiteral ==
    [type |-> "object",
     props |-> [newsworthiness_score |-> 87,
                hook |-> "Robotic knee surgery delivers faster recovery and unprecedented precision",
                headlines |-> <<"New Study", "Robotic Precision", "Groundbreaking Trial">>,
                story_outline |-> [problem |-> "problem", promise |-> "promise",
                                   people |-> "people", action |-> "action"]]]

ComplianceLiteral ==
    [type |-> "object",
     props |-> [compliance_risks |-> <<"breakthrough therapy", "transform">>,
                suggested_corrections |-> <<"new therapy", "may improve">>,
                plain_language_score |-> 78]]

AudienceLiteral ==
    [type |-> "object",
     props |-> [stakeholder_segments |-> <<"Patients", "Physicians", "Regulators", "Investors">>,
                channel_recommendations |-> <<"Patients", "Physicians", "Regulators", "Investors">>,
                tone_guidelines |-> <<"Patients", "Physicians", "Regulators", "Investors">>]]

StrategicLiteral ==
    [type |-> "object",
     props |-> [analysis |-> <<[brand |-> "Competitor A", share_of_voice |-> 40],
                               [brand |-> "Competitor B", share_of_voice |-> 30]>>,
                opportunity |-> "Differentiate"]]

EmptyObject == [type |-> "object", props |-> <<>>]

PlaceholderString ==
    [type |-> "string", props |-> <<>>]

FourLiterals == {NarrativeLiteral, ComplianceLiteral, AudienceLiteral, StrategicLiteral}

OwnKeys(v) == DOMAIN v.props

(***************************************************************************)
(* The mock dispatch                                                       *)
(***************************************************************************)
\* variant: the last test looks for the bare word instead of the quoted key
callGeminiAPI_unquotedAnalysis(p, jsonOut) ==
    IF Includes(p, Quoted("newsworthiness_score")) THEN NarrativeLiteral
    ELSE IF Includes(p, Quoted("compliance_risks")) THEN ComplianceLiteral
    ELSE IF Includes(p, Quoted("stakeholder_segments")) THEN AudienceLiteral
    ELSE IF Includes(p, <<"analysis">>) THEN StrategicLiteral
    ELSE IF ~jsonOut THEN PlaceholderString
    ELSE EmptyObject

\* variant: the first two tests are swapped
callGeminiAPI_complianceFirst(p, jsonOut) ==
    IF Includes(p, Quoted("compliance_risks")) THEN ComplianceLiteral
    ELSE IF Includes(p, Quoted("newsworthiness_score")) THEN NarrativeLiteral
    ELSE IF Includes(p, Quoted("stakeholder_segments")) THEN AudienceLiteral
    ELSE IF Includes(p, Quoted("analysis")) THEN StrategicLiteral
    ELSE IF ~jsonOut THEN PlaceholderString
    ELSE EmptyObject

\* variant: the fallback tests isJsonOutput instead of !isJsonOutput
callGeminiAPI_fallbackSwapped(p, jsonOut) ==
    IF Includes(p, Quoted("newsworthiness_score")) THEN NarrativeLiteral
    ELSE IF Includes(p, Quoted("compliance_risks")) THEN ComplianceLiteral
    ELSE IF Includes(p, Quoted("stakeholder_segments")) THEN AudienceLiteral
    ELSE IF Includes(p, Quoted("analysis")) THEN StrategicLiteral
    ELSE IF jsonOut THEN PlaceholderString
    ELSE EmptyObject

callGeminiAPI(p, jsonOut) ==
    IF Includes(p, Quoted("newsworthiness_score")) THEN NarrativeLiteral
    ELSE IF Includes(p, Quoted("compliance_risks")) THEN ComplianceLiteral
    ELSE IF Includes(p, Quoted("stakeholder_segments")) THEN AudienceLiteral
    ELSE IF Includes(p, Quoted("analysis")) THEN StrategicLiteral
    ELSE IF ~jsonOut THEN PlaceholderString
    ELSE EmptyObject

\* variant: the async function throws, so its promise is rejected
AwaitCall_rejected(p) == [prompt |-> p, status |-> "rejected", value |-> Undefined]

\* const res = await callGeminiAPI(prompt): the handler's frame holds the prompt and
\* the promise of the async function, fulfilled with the value it returned
AwaitCall(p) == [prompt |-> p, status |-> "fulfilled", value |-> callGeminiAPI(p, TRUE)]

(***************************************************************************)
(* Panels                                                                  *)
(***************************************************************************)
Panels == {"Narrative", "Compliance", "Audience", "Strategic"}

NarrativeIndustries == {"MedTech", "Pharma", "Healthcare", "Finance", "Legal"}
ComplianceIndustries == {"Pharma", "MedTech", "Healthcare", "Finance", "Legal"}

\* variant: the template names the first key without its quotes
NarrativePrompt_unquotedKey(title, details, industry) ==
    <<Txt, industry, Txt,
      Quote, "problem", Quote, Txt, Quote, "promise", Quote, Txt,
      Quote, "people", Quote, Txt, Quote, "action", Quote, Txt,
      "newsworthiness_score", Txt, Quote, "hook", Quote, Txt,
      Quote, "headlines", Quote, Txt, Quote, "story_outline", Quote, Txt,
      Quote>> \o title \o <<Quote, Txt, Quote>> \o details \o <<Quote, Txt>>

\* template literal of handleGenerate
NarrativePrompt(title, details, industry) ==
    <<Txt, industry, Txt,
      Quote, "problem", Quote, Txt, Quote, "promise", Quote, Txt,
      Quote, "people", Quote, Txt, Quote, "action", Quote, Txt,
      Quote, "newsworthiness_score", Quote, Txt, Quote, "hook", Quote, Txt,
      Quote, "headlines", Quote, Txt, Quote, "story_outline", Quote, Txt,
      Quote>> \o title \o <<Quote, Txt, Quote>> \o details \o <<Quote, Txt>>

\* template literal of handleReview
CompliancePrompt(text, industry) ==
    <<Txt, industry, Txt,
      Quote, "compliance_risks", Quote, Txt,
      Quote, "suggested_corrections", Quote, Txt,
      Quote, "plain_language_score", Quote, Txt,
      Quote>> \o text \o <<Quote>>

\* template literal of handleAnalyze
AudiencePrompt(topic) ==
    <<Txt, Quote>> \o topic \o
    <<Quote, Txt,
      Quote, "stakeholder_segments", Quote, Txt,
      Quote, "segment_name", Quote, Txt, Quote, "insights", Quote, Txt,
      Quote, "channel_recommendations", Quote, Txt,
      Quote, "tone_guidelines", Quote, Txt>>

\* template literal of handleInsight
StrategicPrompt(competitors, topic) ==
    <<Txt>> \o competitors \o <<Txt, Quote>> \o topic \o
    <<Quote, Txt,
      Quote, "analysis", Quote, Txt,
      Quote, "brand", Quote, Txt, Quote, "narrative", Quote, Txt,
      Quote, "share_of_voice", Quote, Txt, Quote, "strengths", Quote, Txt,
      Quote, "weaknesses", Quote, Txt,
      Quote, "opportunity", Quote, Txt>>

\* properties of result the panel's JSX dereferences (.map, .problem) when result is truthy
RenderReads(p) ==
    CASE p = "Narrative" -> {"headlines", "story_outline"}
      [] p = "Compliance" -> {"compliance_risks", "suggested_corrections"}
      [] p = "Audience" -> {"stakeholder_segments", "channel_recommendations", "tone_guidelines"}
      [] p = "Strategic" -> {"analysis"}

NarrativeValidationMsg == "Please provide details for your announcement."
ComplianceValidationMsg == "Please enter text for compliance review."
AudienceValidationMsg == "Please provide a campaign or product topic."
StrategicValidationMsg == "Please provide competitors and a topic."

NarrativeFailedMsg == "Failed to generate narrative. Please try again."
ComplianceFailedMsg == "Failed to perform compliance review."
AudienceFailedMsg == "Failed to analyze audience."
StrategicFailedMsg == "Failed to generate strategic insight."

NoError == "null"

ValidationMsg(p) ==
    CASE p = "Narrative" -> NarrativeValidationMsg
      [] p = "Compliance" -> ComplianceValidationMsg
      [] p = "Audience" -> AudienceValidationMsg
      [] p = "Strategic" -> StrategicValidationMsg

FailedMsg(p) ==
    CASE p = "Narrative" -> NarrativeFailedMsg
      [] p = "Compliance" -> ComplianceFailedMsg
      [] p = "Audience" -> AudienceFailedMsg
      [] p = "Strategic" -> StrategicFailedMsg

\* state after the first render of the four components
InitInputs ==
    [p \in Panels |->
        CASE p = "Narrative" -> [title |-> <<Txt>>, details |-> <<Txt>>, industry |-> "MedTech"]
          [] p = "Compliance" -> [text |-> <<Txt>>, industry |-> "Pharma"]
          [] p = "Audience" -> [topic |-> <<Txt>>]
          [] p = "Strategic" -> [competitors |-> <<Txt>>, topic |-> <<Txt>>]]

PanelInit ==
    /\ inputs = InitInputs
    /\ isLoading = [p \in Panels |-> FALSE]
    /\ result = [p \in Panels |-> Null]
    /\ error = [p \in Panels |-> NoError]
    /\ calls = [p \in Panels |-> <<>>]
    /\ clicks = [p \in Panels |-> 0]
    /\ apiCalls = [p \in Panels |-> 0]
    /\ nEvents = 0

FnIdle ==
    /\ origin = "none"
    /\ prompt = <<>>
    /\ isJsonOutput = TRUE
    /\ ret = Undefined

Init == PanelInit /\ FnIdle

(***************************************************************************)
(* Input edits (onChange handlers)                                         *)
(***************************************************************************)
EditField(p, f, v) ==
    /\ nEvents < MaxEvents
    /\ inputs' = [inputs EXCEPT ![p][f] = v]
    /\ nEvents' = nEvents + 1
    /\ UNCHANGED <<isLoading, result, error, calls, clicks, apiCalls>>
    /\ UNCHANGED fnVars

setTitle == \E v \in TypedStrings : EditField("Narrative", "title", v)
setDetails == \E v \in TypedStrings : EditField("Narrative", "details", v)
setIndustryNarrative == \E v \in NarrativeIndustries : EditField("Narrative", "industry", v)
setText == \E v \in TypedStrings : EditField("Compliance", "text", v)
setIndustryCompliance == \E v \in ComplianceIndustries : EditField("Compliance", "industry", v)
setTopicAudience == \E v \in TypedStrings : EditField("Audience", "topic", v)
setCompetitors == \E v \in TypedStrings : EditField("Strategic", "competitors", v)
setTopicStrategic == \E v \in TypedStrings : EditField("Strategic", "topic", v)

(***************************************************************************)
(* Submit handlers                                                         *)
(***************************************************************************)
\* variant: the button is never disabled
ButtonEnabled_always(p) == TRUE

\* <button disabled={isLoading}>: the handler runs only while the button is enabled
ButtonEnabled(p) == ~isLoading[p]

\* variant: the result is cleared before the inputs are validated
Reject_clearsResult(p, msg) ==
    /\ error' = [error EXCEPT ![p] = msg]
    /\ result' = [result EXCEPT ![p] = Null]
    /\ UNCHANGED <<inputs, isLoading, calls, apiCalls>>

\* if (!x) { setError(msg); return; }
Reject(p, msg) ==
    /\ error' = [error EXCEPT ![p] = msg]
    /\ UNCHANGED <<inputs, isLoading, result, calls, apiCalls>>

\* variant: setResult(null) is left out
Accept_keepsResult(p, pr) ==
    /\ isLoading' = [isLoading EXCEPT ![p] = TRUE]
    /\ error' = [error EXCEPT ![p] = NoError]
    /\ calls' = [calls EXCEPT ![p] = Append(@, AwaitCall(pr))]
    /\ apiCalls' = [apiCalls EXCEPT ![p] = @ + 1]
    /\ UNCHANGED <<inputs, result>>

\* variant: the call is made a second time before the handler awaits it
Accept_retry(p, pr) ==
    /\ isLoading' = [isLoading EXCEPT ![p] = TRUE]
    /\ result' = [result EXCEPT ![p] = Null]
    /\ error' = [error EXCEPT ![p] = NoError]
    /\ calls' = [calls EXCEPT ![p] = Append(@, AwaitCall(pr))]
    /\ apiCalls' = [apiCalls EXCEPT ![p] = @ + 2]
    /\ UNCHANGED inputs

\* variant: the four panels share one result
Accept_sharedResult(p, pr) ==
    /\ isLoading' = [isLoading EXCEPT ![p] = TRUE]
    /\ result' = [q \in Panels |-> Null]
    /\ error' = [error EXCEPT ![p] = NoError]
    /\ calls' = [calls EXCEPT ![p] = Append(@, AwaitCall(pr))]
    /\ apiCalls' = [apiCalls EXCEPT ![p] = @ + 1]
    /\ UNCHANGED inputs

\* setIsLoading(true); setResult(null); setError(null); try { res = await callGeminiAPI(prompt) ...
Accept(p, pr) ==
    /\ isLoading' = [isLoading EXCEPT ![p] = TRUE]
    /\ result' = [result EXCEPT ![p] = Null]
    /\ error' = [error EXCEPT ![p] = NoError]
    /\ calls' = [calls EXCEPT ![p] = Append(@, AwaitCall(pr))]
    /\ apiCalls' = [apiCalls EXCEPT ![p] = @ + 1]
    /\ UNCHANGED inputs

Click(p) ==
    /\ nEvents < MaxEvents
    /\ ButtonEnabled(p)
    /\ nEvents' = nEvents + 1
    /\ clicks' = [clicks EXCEPT ![p] = @ + 1]
    /\ UNCHANGED fnVars

handleGenerate ==
    /\ Click("Narrative")
    /\ LET in == inputs["Narrative"] IN
         \/ /\ in.details = <<>>
            /\ Reject("Narrative", ValidationMsg("Narrative"))
         \/ /\ in.details # <<>>
            /\ Accept("Narrative", NarrativePrompt(in.title, in.details, in.industry))

handleReview ==
    /\ Click("Compliance")
    /\ LET in == inputs["Compliance"] IN
         \/ /\ in.text = <<>>
            /\ Reject("Compliance", ValidationMsg("Compliance"))
         \/ /\ in.text # <<>>
            /\ Accept("Compliance", CompliancePrompt(in.text, in.industry))

handleAnalyze ==
    /\ Click("Audience")
    /\ LET in == inputs["Audience"] IN
         \/ /\ in.topic = <<>>
            /\ Reject("Audience", ValidationMsg("Audience"))
         \/ /\ in.topic # <<>>
            /\ Accept("Audience", AudiencePrompt(in.topic))

handleInsight ==
    /\ Click("Strategic")
    /\ LET in == inputs["Strategic"] IN
         \/ /\ (in.competitors = <<>> \/ in.topic = <<>>)
            /\ Reject("Strategic", ValidationMsg("Strategic"))
         \/ /\ ~(in.competitors = <<>> \/ in.topic = <<>>)
            /\ Accept("Strategic", StrategicPrompt(in.competitors, in.topic))

(***************************************************************************)
(* Continuation of a handler after its await                               *)
(***************************************************************************)
\* variant: setIsLoading(false) sits in the catch block instead of a finally block
Resume_noFinally(p) ==
    /\ calls[p] # <<>>
    /\ LET promise == Head(calls[p]) IN
         IF promise.status = "fulfilled"
         THEN /\ result' = [result EXCEPT ![p] = promise.value]
              /\ UNCHANGED <<error, isLoading>>
         ELSE /\ error' = [error EXCEPT ![p] = FailedMsg(p)]
              /\ isLoading' = [isLoading EXCEPT ![p] = FALSE]
              /\ UNCHANGED result
    /\ calls' = [calls EXCEPT ![p] = Tail(@)]
    /\ UNCHANGED <<inputs, clicks, apiCalls, nEvents>>
    /\ UNCHANGED fnVars

\* setResult(res) / catch: setError(...) / finally: setIsLoading(false)
Resume(p) ==
    /\ calls[p] # <<>>
    /\ LET promise == Head(calls[p]) IN
         IF promise.status = "fulfilled"
         THEN /\ result' = [result EXCEPT ![p] = promise.value]
              /\ UNCHANGED error
         ELSE /\ error' = [error EXCEPT ![p] = FailedMsg(p)]
              /\ UNCHANGED result
    /\ isLoading' = [isLoading EXCEPT ![p] = FALSE]
    /\ calls' = [calls EXCEPT ![p] = Tail(@)]
    /\ UNCHANGED <<inputs, clicks, apiCalls, nEvents>>
    /\ UNCHANGED fnVars

resumeGenerate == Resume("Narrative")
resumeReview == Resume("Compliance")
resumeAnalyze == Resume("Audience")
resumeInsight == Resume("Strategic")

Next ==
    \/ setTitle
    \/ setDetails
    \/ setIndustryNarrative
    \/ setText
    \/ setIndustryCompliance
    \/ setTopicAudience
    \/ setCompetitors
    \/ setTopicStrategic
    \/ handleGenerate
    \/ handleReview
    \/ handleAnalyze
    \/ handleInsight
    \/ resumeGenerate
    \/ resumeReview
    \/ resumeAnalyze
    \/ resumeInsight

Spec == Init /\ [][Next]_vars

\* the JavaScript job queue runs every pending continuation
FairSpec ==
    /\ Spec
    /\ WF_vars(resumeGenerate)
    /\ WF_vars(resumeReview)
    /\ WF_vars(resumeAnalyze)
    /\ WF_vars(resumeInsight)

(***************************************************************************)
(* The mock dispatch on its own: one call with a given prompt.  The prompt *)
(* is either an arbitrary string or one a panel builds from its template.  *)
(***************************************************************************)
PanelPrompts(p) ==
    CASE p = "Narrative" ->
            { NarrativePrompt(t, d, i) :
                t \in TypedStrings, d \in TypedStrings \ { <<>> }, i \in NarrativeIndustries }
      [] p = "Compliance" ->
            { CompliancePrompt(t, i) :
                t \in TypedStrings \ { <<>> }, i \in ComplianceIndustries }
      [] p = "Audience" ->
            { AudiencePrompt(t) : t \in TypedStrings \ { <<>> } }
      [] p = "Strategic" ->
            { StrategicPrompt(c, t) :
                c \in TypedStrings \ { <<>> }, t \in TypedStrings \ { <<>> } }

InitFn ==
    /\ PanelInit
    /\ ret = Undefined
    /\ \/ /\ origin = "direct"
          /\ prompt \in StringsUpTo(MaxPromptLen)
          /\ isJsonOutput \in BOOLEAN
       \/ /\ origin \in Panels
          /\ prompt \in PanelPrompts(origin)
          /\ isJsonOutput = TRUE     \* the panels pass one argument

Call ==
    /\ origin # "none"
    /\ ret = Undefined
    /\ ret' = callGeminiAPI(prompt, isJsonOutput)
    /\ UNCHANGED <<origin, prompt, isJsonOutput>>
    /\ UNCHANGED panelVars

NextFn == Call

SpecFn == InitFn /\ [][NextFn]_vars

(***************************************************************************)
(* Vocabulary of the properties                                            *)
(***************************************************************************)
\* the keys a prompt contains
KeysIn(p) == { k \in KeyWords : Includes(p, Quoted(k)) }

\* the first key of KeyOrder that is in S
FirstInOrder(S) ==
    KeyOrder[CHOOSE i \in 1..Len(KeyOrder) :
                /\ KeyOrder[i] \in S
                /\ \A j \in 1..(i - 1) : KeyOrder[j] \notin S]

LiteralOfKey(k) ==
    CASE k = "newsworthiness_score" -> NarrativeLiteral
      [] k = "compliance_risks" -> ComplianceLiteral
      [] k = "stakeholder_segments" -> AudienceLiteral
      [] k = "analysis" -> StrategicLiteral

LiteralOfPanel(p) ==
    CASE p = "Narrative" -> NarrativeLiteral
      [] p = "Compliance" -> ComplianceLiteral
      [] p = "Audience" -> AudienceLiteral
      [] p = "Strategic" -> StrategicLiteral

\* the required inputs of a panel are non-empty
RequiredFilled(p) ==
    CASE p = "Narrative" -> inputs[p].details # <<>>
      [] p = "Compliance" -> inputs[p].text # <<>>
      [] p = "Audience" -> inputs[p].topic # <<>>
      [] p = "Strategic" -> inputs[p].competitors # <<>> /\ inputs[p].topic # <<>>

PanelState(p) == <<inputs[p], isLoading[p], result[p], error[p]>>

Returned == ret # Undefined

(***************************************************************************)
(* C1: for every prompt and either value of isJsonOutput, callGeminiAPI    *)
(* returns one of the four fixed literal objects and nothing else.         *)
(***************************************************************************)
C1_AlwaysOneOfFour == Returned => ret \in FourLiterals

\* C1 as amended: a prompt that contains at least one of the four quoted keys gets
\* one of the four literals; a prompt that contains none gets the empty object or
\* the placeholder string.
C1_FourLiteralsOrFallback ==
    Returned =>
        IF KeysIn(prompt) # {}
        THEN ret \in FourLiterals
        ELSE ret \in {EmptyObject, PlaceholderString}

C1_Witness ==
    /\ origin = "direct"
    /\ ~isJsonOutput
    /\ KeysIn(prompt) = {"analysis"}
    /\ ret = StrategicLiteral

(***************************************************************************)
(* C2: whenever a panel's result is non-null it is the literal of that     *)
(* panel's own type, and so has every field the panel's display reads.     *)
(***************************************************************************)
C2_ResultIsOwnLiteral ==
    \A p \in Panels :
        result[p] # Null =>
            /\ result[p] = LiteralOfPanel(p)
            /\ RenderReads(p) \subseteq OwnKeys(result[p])

(***************************************************************************)
(* C3: the value returned for a prompt that contains a key is the literal  *)
(* of the first key, in the order newsworthiness_score, compliance_risks,  *)
(* stakeholder_segments, analysis, that the prompt contains; it depends on *)
(* the set of keys contained and on nothing else.                          *)
(***************************************************************************)
C3_FirstKeyInOrderDecides ==
    (Returned /\ KeysIn(prompt) # {}) =>
        ret = LiteralOfKey(FirstInOrder(KeysIn(prompt)))

C3_Witness ==
    /\ Returned
    /\ KeysIn(prompt) = {"compliance_risks", "analysis"}
    /\ Includes(prompt, Quoted("analysis") \o <<"compliance_risks">>)
    /\ ret = ComplianceLiteral

(***************************************************************************)
(* C4: a panel never has more than one callGeminiAPI call in flight, and   *)
(* it has one exactly while its isLoading flag is true.                    *)
(***************************************************************************)
C4_AtMostOneCallInFlight ==
    \A p \in Panels :
        /\ Len(calls[p]) <= 1
        /\ isLoading[p] <=> (Len(calls[p]) = 1)

C4_Witness ==
    /\ isLoading["Narrative"] /\ Len(calls["Narrative"]) = 1
    /\ isLoading["Strategic"] /\ Len(calls["Strategic"]) = 1
    /\ clicks["Compliance"] = 1 /\ ~isLoading["Compliance"]

(***************************************************************************)
(* C5: a submit whose required inputs are filled calls callGeminiAPI       *)
(* exactly once, a submit with a required input empty calls it zero times, *)
(* and no step other than a submit click calls it.                         *)
(***************************************************************************)
C5_OneCallPerAcceptedSubmit ==
    [][\A p \in Panels :
          /\ (clicks'[p] = clicks[p] + 1 /\ RequiredFilled(p)) =>
                /\ apiCalls'[p] = apiCalls[p] + 1
                /\ Len(calls'[p]) = Len(calls[p]) + 1
          /\ (clicks'[p] = clicks[p] + 1 /\ ~RequiredFilled(p)) =>
                /\ apiCalls'[p] = apiCalls[p]
                /\ calls'[p] = calls[p]
          /\ clicks'[p] = clicks[p] =>
                /\ apiCalls'[p] = apiCalls[p]
                /\ Len(calls'[p]) <= Len(calls[p])]_vars

C5_Witness ==
    \E p \in Panels :
        /\ clicks[p] = 2
        /\ apiCalls[p] = 1
        /\ ~RequiredFilled(p)

(***************************************************************************)
(* C6: whatever title, details and industry are, every call the Narrative  *)
(* panel makes resolves to the narrative literal and that is the only      *)
(* non-null result the panel ever stores.                                  *)
(***************************************************************************)
C6_NarrativeResultFixed ==
    /\ result["Narrative"] \in {Null, NarrativeLiteral}
    /\ \A i \in 1..Len(calls["Narrative"]) :
          calls["Narrative"][i].value = NarrativeLiteral

C6_Witness ==
    /\ calls["Narrative"] # <<>>
    /\ LET c == Head(calls["Narrative"]) IN
         /\ c.prompt = NarrativePrompt(<<"compliance_risks">>, <<"analysis">>, "MedTech")
         /\ c.value = NarrativeLiteral

(***************************************************************************)
(* C7: a submit with a required input empty sets the panel's error to its  *)
(* validation message and changes nothing else.                            *)
(***************************************************************************)
C7_RejectedSubmitOnlySetsError ==
    [][\A p \in Panels :
          (clicks'[p] = clicks[p] + 1 /\ ~RequiredFilled(p)) =>
              /\ error'[p] = ValidationMsg(p)
              /\ ~isLoading[p] /\ ~isLoading'[p]
              /\ result'[p] = result[p]
              /\ inputs'[p] = inputs[p]
              /\ apiCalls'[p] = apiCalls[p]
              /\ calls'[p] = calls[p]
              /\ \A q \in Panels \ {p} : PanelState(q)' = PanelState(q)]_vars

C7_Witness ==
    /\ ~RequiredFilled("Strategic")
    /\ inputs["Strategic"].competitors # <<>>
    /\ result["Strategic"] = StrategicLiteral
    /\ error["Strategic"] = StrategicValidationMsg
    /\ ~isLoading["Strategic"]

(***************************************************************************)
(* C8: once a panel's isLoading is true it eventually is false again, and  *)
(* at that point the panel's result is non-null.                           *)
(***************************************************************************)
C8_LoadingEventuallyEnds ==
    \A p \in Panels :
        isLoading[p] ~> (~isLoading[p] /\ result[p] # Null)

C8_Witness ==
    \E q \in Panels :
        \A p \in Panels \ {q} : clicks[p] = 1 /\ ~isLoading[p] /\ result[p] # Null

(***************************************************************************)
(* C9: every step changes the inputs, isLoading, result and error of at    *)
(* most one panel, the one whose field was edited, whose button was        *)
(* clicked or whose call completed.                                        *)
(***************************************************************************)
C9_StepTouchesOnePanel ==
    [][\A p \in Panels :
          (\/ PanelState(p)' # PanelState(p)
           \/ clicks'[p] # clicks[p]
           \/ calls'[p] # calls[p])
          => \A q \in Panels \ {p} :
                /\ PanelState(q)' = PanelState(q)
                /\ clicks'[q] = clicks[q]
                /\ calls'[q] = calls[q]]_vars

C9_Witness ==
    /\ result["Narrative"] # Null
    /\ isLoading["Compliance"]
    /\ inputs["Strategic"] # InitInputs["Strategic"]

(***************************************************************************)
(* C10: a prompt with none of the four keys gets the empty object when     *)
(* isJsonOutput is true and the placeholder string when it is false; no    *)
(* prompt a panel builds gets either of them.                              *)
(***************************************************************************)
C10_FallbackOnlyWithoutKey ==
    Returned =>
        /\ KeysIn(prompt) = {} =>
              ret = IF isJsonOutput THEN EmptyObject ELSE PlaceholderString
        /\ origin \in Panels =>
              /\ isJsonOutput
              /\ ret \notin {EmptyObject, PlaceholderString}

C10_Witness ==
    /\ origin = "direct"
    /\ Returned
    /\ Includes(prompt, <<"analysis">>)
    /\ ~isJsonOutput
    /\ ret = PlaceholderString

(***************************************************************************)
(* C11: in every reachable state and for every panel, isLoading true       *)
(* implies that result is null and error is null.                          *)
(***************************************************************************)
C11_LoadingMeansCleared ==
    \A p \in Panels :
        isLoading[p] => (result[p] = Null /\ error[p] = NoError)

\* a second accepted submit of the Audience panel is pending, over an earlier
\* result, and the topic was edited after the click
C11_Witness ==
    /\ isLoading["Audience"]
    /\ apiCalls["Audience"] = 2
    /\ Head(calls["Audience"]).prompt # AudiencePrompt(inputs["Audience"].topic)
    /\ result["Audience"] = Null
    /\ error["Audience"] = NoError

(***************************************************************************)
(* C12: no call of callGeminiAPI is rejected, no panel's error is ever one *)
(* of the 'Failed to ...' messages, and every step that completes a call   *)
(* leaves the panel's error null and its result non-null.                  *)
(***************************************************************************)
FailedMsgs == { FailedMsg(p) : p \in Panels }

C12_CatchNeverRuns ==
    /\ [](\A p \in Panels :
            /\ error[p] \notin FailedMsgs
            /\ \A i \in 1..Len(calls[p]) : calls[p][i].status = "fulfilled")
    /\ [][\A p \in Panels :
            (isLoading[p] /\ ~isLoading'[p]) =>
                (error'[p] = NoError /\ result'[p] # Null)]_vars

\* a completed call whose value is another panel's literal: still no error
C12_Witness ==
    /\ ~isLoading["Audience"]
    /\ calls["Audience"] = <<>>
    /\ apiCalls["Audience"] = 1
    /\ result["Audience"] = ComplianceLiteral
    /\ error["Audience"] = NoError

====
